---- MODULE Spec2Model ----
(***************************************************************************)
(* State-machine model of the two ROS nodes of the traffic-aware           *)
(* trajectory pipeline:                                                    *)
(*   waypoint_updater.py  (class WaypointUpdater)                          *)
(*   tl_detector.py       (class TLDetector)                               *)
(*                                                                         *)
(* Numbers.  The code computes in floating point; the model computes in    *)
(* fixed point with integers:                                              *)
(*   positions  whole metres (x, y; z is 0 everywhere),                    *)
(*   distances  centimetres  (DistUnit per metre), floor of the root,      *)
(*   speeds     1e-6 m/s     (SpeedUnit per m/s), so that KPH_MPS =        *)
(*              0.277778 and every speed constant derived from it is an    *)
(*              exact integer,                                             *)
(*   yaw        quarter turns (0..3 for 0, pi/2, pi, 3pi/2), whose sine    *)
(*              and cosine are exact.                                      *)
(* Python's None is the empty tuple, a present value v is <<v>>.           *)
(* Python lists are 0-based, sequences 1-based: list[i] is seq[i + 1].     *)
(***************************************************************************)
EXTENDS Integers, Sequences, FiniteSets, TLC

VARIABLES
    \* ---- WaypointUpdater (waypoint_updater.py:48-64)
    base_waypoints,   \* None or <<list of waypoint objects [x, y, v]>>
    pose,             \* None or <<[x, y, yaw]>>
    last_waypoint,    \* None or <<index>>
    traffic_wp_ind,   \* None or <<index>>
    current_speed,    \* measured speed
    apply_brake,      \* braking flag
    final_waypoints,  \* None or <<the Lane last published on final_waypoints>>
    tick,             \* None or <<locals of the last completed loop iteration>>
    alive,            \* FALSE once an exception has left loop()
    track,            \* observer: have the ticks so far followed the path?
    \* ---- TLDetector (tl_detector.py:23-54)
    stop_line_positions, \* self.config['stop_line_positions']
    tl_pose,          \* None or <<[x, y]>>
    tl_waypoints,     \* None or <<Lane.waypoints>>
    lights,           \* list of signal observations [x, y]
    state,            \* current raw state
    last_state,       \* committed state
    last_wp,          \* committed stop index
    state_count,      \* run length counter
    tl_out,           \* what the last image_cb published on /traffic_waypoint
    obs               \* observer: the run of raw observations seen so far

wu_vars == <<base_waypoints, pose, last_waypoint, traffic_wp_ind, current_speed,
             apply_brake, final_waypoints, tick, alive, track>>
tl_vars == <<stop_line_positions, tl_pose, tl_waypoints, lights, state,
             last_state, last_wp, state_count, tl_out, obs>>
vars == <<wu_vars, tl_vars>>

----------------------------------------------------------------------------
(* Fixed point and Python's None *)

SpeedUnit == 1000 * 1000
DistUnit == 10 * 10
\* float('inf') and sys.float_info.max: larger than every distance
Inf == 2147483647

None == <<>>
Some(v) == <<v>>
Val(o) == o[1]

Min(a, b) == IF a < b THEN a ELSE b

RECURSIVE SqrtSearch(_, _, _)
SqrtSearch(n, lo, hi) ==
    IF lo >= hi THEN lo
    ELSE LET mid == (lo + hi + 1) \div 2
         IN  IF mid * mid <= n THEN SqrtSearch(n, mid, hi)
                               ELSE SqrtSearch(n, lo, mid - 1)

\* math.sqrt, rounded down to a whole number
ISqrt(n) == SqrtSearch(n, 0, 46340)

Abs(a) == IF a < 0 THEN 0 - a ELSE a

\* sqrt(dx^2 + dy^2) of whole metres dx, dy, in centimetres rounded down
\* (the root is exact when dx or dy is 0)
Norm(dx, dy) ==
    IF dy = 0 THEN Abs(dx) * DistUnit
    ELSE IF dx = 0 THEN Abs(dy) * DistUnit
    ELSE ISqrt((dx * dx + dy * dy) * DistUnit * DistUnit)

\* floor(p * 10^k / den) by long division, for p >= 0 and den > 0
RECURSIVE LongDiv(_, _, _, _)
LongDiv(q, r, den, k) ==
    IF k = 0 THEN q
    ELSE LongDiv(q * 10 + (r * 10) \div den, (r * 10) % den, den, k - 1)

----------------------------------------------------------------------------
(* Program constants *)

LOOKAHEAD_WPS == 25
\* 0.277778, in SpeedUnit per km/h
KPH_MPS == 277778
SAFE_ACCEL == 1
\* rospy.get_param('~velocity', 20.0)
max_vel == 20
stop_distance == 5
braking_distance == max_vel * 2
creep_speed == 5 * KPH_MPS
speed_limit == max_vel * KPH_MPS

----------------------------------------------------------------------------
(* Geometry (waypoint_updater.py) *)

\* distance in centimetres between two points given in metres
euclidean_distance(p1, p2) == Norm(p1.x - p2.x, p1.y - p2.y)

Cos(q) == CASE q = 0 -> 1 [] q = 1 -> 0 [] q = 2 -> -1 [] OTHER -> 0
Sin(q) == CASE q = 0 -> 0 [] q = 1 -> 1 [] q = 2 -> 0 [] OTHER -> -1

\* cos(0.0 - yaw) = cos(yaw), sin(0.0 - yaw) = -sin(yaw)
is_behind(p, target_wp) ==
    LET shift_x == target_wp.x - p.x
        shift_y == target_wp.y - p.y
        x == (shift_x * Cos(p.yaw)) - (shift_y * (0 - Sin(p.yaw)))
    IN  IF x > 0 THEN FALSE ELSE TRUE

----------------------------------------------------------------------------
(* Path Locator: WaypointUpdater.__get_closest_waypoint *)

\* the incremental walk (lines 112-121): from the seed, while the distance
\* decreases; acc = [closest_index, closest_waypoint, closest_distance]
RECURSIVE WalkFromLast(_, _, _, _, _)
WalkFromLast(wps, p, seed, i, acc) ==
    IF i >= Len(wps) THEN acc
    ELSE LET this_index == (i + seed) % Len(wps)
             waypoint == wps[this_index + 1]
             this_distance == euclidean_distance(waypoint, p)
         IN  IF this_distance < acc.closest_distance
             THEN WalkFromLast(wps, p, seed, i + 1,
                               [closest_index |-> this_index,
                                closest_waypoint |-> Some(waypoint),
                                closest_distance |-> this_distance])
             ELSE acc

\* the full scan (lines 124-129)
RECURSIVE ScanAll(_, _, _, _)
ScanAll(wps, p, i, acc) ==
    IF i >= Len(wps) THEN acc
    ELSE LET waypoint == wps[i + 1]
             this_distance == euclidean_distance(waypoint, p)
         IN  IF this_distance < acc.closest_distance
             THEN ScanAll(wps, p, i + 1,
                          [closest_index |-> i,
                           closest_waypoint |-> Some(waypoint),
                           closest_distance |-> this_distance])
             ELSE ScanAll(wps, p, i + 1, acc)

\* Python's truth value of self.last_waypoint: None and 0 are false
Truthy(o) == o # None /\ Val(o) # 0

\* [raised, closest_index]; raised: closest_waypoint is None (an empty
\* path) and __is_behind reads None.pose
get_closest_waypoint(wps, last, p) ==
    LET start == [closest_index |-> 0, closest_waypoint |-> None,
                  closest_distance |-> Inf]
        found == IF Truthy(last) THEN WalkFromLast(wps, p, Val(last), 0, start)
                                 ELSE ScanAll(wps, p, 0, start)
    IN  IF found.closest_waypoint = None
        THEN [raised |-> TRUE, closest_index |-> found.closest_index]
        ELSE [raised |-> FALSE,
              closest_index |->
                  IF is_behind(p, Val(found.closest_waypoint))
                  THEN found.closest_index + 1
                  ELSE found.closest_index]

\* get_traffic_wp without the search of lines 146-149: every received stop
\* index is returned
get_traffic_wp_NoWindow(wps, traffic, closest_index) ==
    IF traffic # None /\ Val(traffic) # -1
    THEN Val(traffic)
    ELSE -1

\* WaypointUpdater.__get_traffic_wp
get_traffic_wp(wps, traffic, closest_index) ==
    IF traffic # None /\ Val(traffic) # -1
       /\ \E i \in 0 .. (LOOKAHEAD_WPS - 1) :
              (i + closest_index) % Len(wps) = Val(traffic)
    THEN Val(traffic)
    ELSE -1

----------------------------------------------------------------------------
(* Trajectory Generator: WaypointUpdater.__generate_next_waypoints.        *)
(* wps is the list self.base_waypoints of waypoint objects.  The code      *)
(* takes wp = waypoints[idx], writes wp's speed and appends wp itself to   *)
(* next_waypoints: the list of the trajectory holds the objects of the     *)
(* Base Path, not copies.  The model keeps the objects in wps and the      *)
(* trajectory as the list `next` of the indices of the objects appended.   *)

\* the object after waypoint.twist.twist.linear.x = min(velocity, limit)
set_waypoint_velocity(waypoint, velocity) ==
    LET safe_speed == Min(velocity, max_vel * KPH_MPS)
    IN  [waypoint EXCEPT !.v = safe_speed]

\* the heap after set_waypoint_velocity(waypoints[idx], velocity)
Write(wps, idx, velocity) ==
    [wps EXCEPT ![idx + 1] = set_waypoint_velocity(wps[idx + 1], velocity)]

\* CruiseLoop that stays on the last point instead of wrapping (no
\* `% len(self.base_waypoints)` at line 234)
RECURSIVE CruiseLoop_ClampAtEnd(_, _, _, _, _)
CruiseLoop_ClampAtEnd(wps, i, last_idx, speed, next) ==
    IF i >= last_idx THEN [wps |-> wps, next |-> next]
    ELSE LET idx == Min(i, Len(wps) - 1)
             speed2 == Min(speed + SAFE_ACCEL * SpeedUnit, speed_limit)
         IN  CruiseLoop_ClampAtEnd(Write(wps, idx, speed2), i + 1, last_idx, speed2,
                                   Append(next, idx))

\* lines 232-238: the cruise regime
RECURSIVE CruiseLoop(_, _, _, _, _)
CruiseLoop(wps, i, last_idx, speed, next) ==
    IF i >= last_idx THEN [wps |-> wps, next |-> next]
    ELSE LET idx == i % Len(wps)
             speed2 == Min(speed + SAFE_ACCEL * SpeedUnit, speed_limit)
         IN  CruiseLoop(Write(wps, idx, speed2), i + 1, last_idx, speed2,
                        Append(next, idx))

\* line 248: min(stop_distance, self.braking_distance) / self.current_speed,
\* kept as the fraction num / den (num in centimetres, den in SpeedUnit)
brake_coeff(stop_dist, speed) ==
    [num |-> Min(stop_dist, braking_distance * DistUnit), den |-> speed]

\* line 271: brake_coeff * (self.braking_distance - wp_distance), in
\* SpeedUnit: (num/100 m) * (gap/100 m) / (den/10^6) * 10^6, rounded down
decelerate(coeff, wp_distance) ==
    LET p == coeff.num * (braking_distance * DistUnit - wp_distance)
    IN  LongDiv(p \div coeff.den, p % coeff.den, coeff.den, 8)

\* BrakeStep without line 260 (traffic_idx_found = True)
BrakeStep_FlagNeverSet(wps, idx, traffic_wp, traffic_idx, coeff, speed0, st) ==
    LET wp_distance == euclidean_distance(wps[idx + 1], traffic_wp)
    IN  IF idx = traffic_idx
        THEN [v |-> 0, speed |-> st.speed, found |-> FALSE]
        ELSE IF wp_distance > braking_distance * DistUnit
        THEN LET speed2 == Min(st.speed + (SAFE_ACCEL * SpeedUnit) \div 4,
                               speed_limit)
             IN  [v |-> speed2, speed |-> speed2, found |-> FALSE]
        ELSE IF wp_distance > stop_distance * DistUnit
        THEN [v |-> creep_speed, speed |-> st.speed, found |-> FALSE]
        ELSE [v |-> speed0 - decelerate(coeff, wp_distance),
              speed |-> st.speed, found |-> FALSE]

\* lines 255-275: the speed written to the waypoint at idx and the flag
\* traffic_idx_found after it; st = [speed, found]
BrakeStep(wps, idx, traffic_wp, traffic_idx, coeff, speed0, st) ==
    IF ~st.found
    THEN LET wp_distance == euclidean_distance(wps[idx + 1], traffic_wp)
         IN  IF idx = traffic_idx
             THEN [v |-> 0, speed |-> st.speed, found |-> TRUE]
             ELSE IF wp_distance > braking_distance * DistUnit
             THEN LET speed2 == Min(st.speed + (SAFE_ACCEL * SpeedUnit) \div 4,
                                    speed_limit)
                  IN  [v |-> speed2, speed |-> speed2, found |-> FALSE]
             ELSE IF wp_distance > stop_distance * DistUnit
             THEN [v |-> creep_speed, speed |-> st.speed, found |-> FALSE]
             ELSE [v |-> speed0 - decelerate(coeff, wp_distance),
                   speed |-> st.speed, found |-> FALSE]
    ELSE [v |-> 0, speed |-> st.speed, found |-> TRUE]

\* lines 252-277: the brake regime
RECURSIVE BrakeLoop(_, _, _, _, _, _, _, _, _)
BrakeLoop(wps, i, last_idx, traffic_wp, traffic_idx, coeff, speed0, st, next) ==
    IF i >= last_idx THEN [wps |-> wps, next |-> next]
    ELSE LET idx == i % Len(wps)
             r == BrakeStep(wps, idx, traffic_wp, traffic_idx, coeff, speed0, st)
         IN  BrakeLoop(Write(wps, idx, r.v), i + 1, last_idx, traffic_wp,
                       traffic_idx, coeff, speed0,
                       [speed |-> r.speed, found |-> r.found],
                       Append(next, idx))

\* [raised, wps, next]: raised is the ZeroDivisionError of line 248
generate_next_waypoints(p, wps, closest_idx, last_idx, traffic_idx, speed, brake) ==
    IF ~brake
    THEN LET r == CruiseLoop(wps, closest_idx, last_idx, speed, <<>>)
         IN  [raised |-> FALSE, wps |-> r.wps, next |-> r.next]
    ELSE IF traffic_idx = -1
    THEN [raised |-> FALSE, wps |-> wps, next |-> <<>>]
    ELSE IF speed = 0
    THEN [raised |-> TRUE, wps |-> wps, next |-> <<>>]
    ELSE LET traffic_wp == wps[(traffic_idx % Len(wps)) + 1]
             dist == euclidean_distance(p, traffic_wp)
             r == BrakeLoop(wps, closest_idx, last_idx, traffic_wp, traffic_idx,
                            brake_coeff(dist, speed), speed,
                            [speed |-> speed, found |-> FALSE], <<>>)
         IN  [raised |-> FALSE, wps |-> r.wps, next |-> r.next]

\* __generate_next_waypoints when velocity_cb runs in its thread between
\* line 226 and line 248: the local current_speed (lines 226, 235, 263) is the
\* value read before the handler, self.current_speed (lines 248, 272) the
\* value the handler wrote
generate_next_waypoints_preempted(p, wps, closest_idx, last_idx, traffic_idx, speed, self_speed, brake) ==
    IF ~brake
    THEN LET r == CruiseLoop(wps, closest_idx, last_idx, speed, <<>>)
         IN  [raised |-> FALSE, wps |-> r.wps, next |-> r.next]
    ELSE IF traffic_idx = -1
    THEN [raised |-> FALSE, wps |-> wps, next |-> <<>>]
    ELSE IF self_speed = 0
    THEN [raised |-> TRUE, wps |-> wps, next |-> <<>>]
    ELSE LET traffic_wp == wps[(traffic_idx % Len(wps)) + 1]
             dist == euclidean_distance(p, traffic_wp)
             r == BrakeLoop(wps, closest_idx, last_idx, traffic_wp, traffic_idx,
                            brake_coeff(dist, self_speed), self_speed,
                            [speed |-> speed, found |-> FALSE], <<>>)
         IN  [raised |-> FALSE, wps |-> r.wps, next |-> r.next]

\* __get_lane and publish: the message holds the objects' values at the
\* time it is serialized
get_lane(wps, next) == [k \in 1 .. Len(next) |-> wps[next[k] + 1]]

----------------------------------------------------------------------------
(* The messages the waypoint updater receives *)

LineLen == 23
RingSide == 4

\* a straight Base Path along x, one point every 2 m, nominal speed 40 km/h
LinePath == [i \in 1 .. LineLen |-> [x |-> 2 * (i - 1), y |-> 0,
                                     v |-> 40 * KPH_MPS]]

\* a closed Base Path: the corners of a square, anticlockwise from (0, 0)
RingPath ==
    << [x |-> 0, y |-> 0, v |-> 40 * KPH_MPS],
       [x |-> RingSide, y |-> 0, v |-> 40 * KPH_MPS],
       [x |-> RingSide, y |-> RingSide, v |-> 40 * KPH_MPS],
       [x |-> 0, y |-> RingSide, v |-> 40 * KPH_MPS] >>

\* the pose of a vehicle on the ring, s metres from (0, 0) along it, heading
\* along the side it is on (at a corner: the side it enters)
RingPose(s) ==
    LET side == (s \div RingSide) % 4
        d == s % RingSide
    IN  CASE side = 0 -> [x |-> d, y |-> 0, yaw |-> 0]
          [] side = 1 -> [x |-> RingSide, y |-> d, yaw |-> 1]
          [] side = 2 -> [x |-> RingSide - d, y |-> RingSide, yaw |-> 2]
          [] OTHER    -> [x |-> 0, y |-> RingSide - d, yaw |-> 3]

RingPoses == {RingPose(s) : s \in 0 .. (4 * RingSide - 1)}

\* q is p moved forward along the ring by less than one point spacing
Advance(p, q) ==
    \E s \in 0 .. (4 * RingSide - 1), d \in 0 .. (RingSide - 1) :
        p = RingPose(s) /\ q = RingPose(s + d)

Paths == {LinePath, <<>>}
Poses == { [x |-> 0, y |-> 0, yaw |-> 0], [x |-> 1, y |-> 0, yaw |-> 0],
           [x |-> 43, y |-> 0, yaw |-> 0], [x |-> 45, y |-> 0, yaw |-> 0],
           [x |-> 3, y |-> 0, yaw |-> 2] }
Speeds == {0, SpeedUnit, 10 * SpeedUnit}
StopIndices == {-1, 5, 22}

----------------------------------------------------------------------------
(* WaypointUpdater: the message handlers and the driver loop *)

WUInit ==
    /\ base_waypoints = None
    /\ pose = None
    /\ last_waypoint = None
    /\ traffic_wp_ind = None
    /\ current_speed = 0
    /\ apply_brake = FALSE
    /\ final_waypoints = None
    /\ tick = None
    /\ alive = TRUE
    /\ track = None

pose_cb(msg) ==
    /\ alive
    /\ pose' = Some(msg)
    /\ UNCHANGED <<base_waypoints, last_waypoint, traffic_wp_ind, current_speed,
                   apply_brake, final_waypoints, tick, alive, track>>

\* every message brings a list of new waypoint objects
waypoints_cb(msg) ==
    /\ alive
    /\ base_waypoints' = Some(msg)
    /\ UNCHANGED <<pose, last_waypoint, traffic_wp_ind, current_speed,
                   apply_brake, final_waypoints, tick, alive, track>>

traffic_cb(msg) ==
    /\ alive
    /\ traffic_wp_ind' = Some(msg)
    /\ UNCHANGED <<base_waypoints, pose, last_waypoint, current_speed,
                   apply_brake, final_waypoints, tick, alive, track>>

velocity_cb(msg) ==
    /\ alive
    /\ current_speed' = msg
    /\ UNCHANGED <<base_waypoints, pose, last_waypoint, traffic_wp_ind,
                   apply_brake, final_waypoints, tick, alive, track>>

\* lines 164-165: not ready, the iteration ends without output
loop_not_ready ==
    /\ alive
    /\ base_waypoints = None \/ pose = None
    /\ UNCHANGED wu_vars

\* the observer's note of the poses the ticks have used
Tracked(p) ==
    [pose |-> p,
     ok |-> IF track = None THEN p \in RingPoses
            ELSE Val(track).ok /\ Advance(Val(track).pose, p)]

\* loop_iteration without the else branch of lines 181-182: the braking flag,
\* once set, is never cleared
loop_iteration_FlagNotCleared ==
    /\ alive
    /\ base_waypoints # None /\ pose # None
    /\ LET p == Val(pose)
           wps == Val(base_waypoints)
           loc == get_closest_waypoint(wps, last_waypoint, p)
           closest_idx == loc.closest_index
           last_index == closest_idx + LOOKAHEAD_WPS
           traffic_idx == get_traffic_wp(wps, traffic_wp_ind, closest_idx)
           brake == (apply_brake \/ traffic_idx # -1)
           gen == generate_next_waypoints(p, wps, closest_idx, last_index,
                                          traffic_idx, current_speed, brake)
       IN  IF loc.raised
           THEN /\ alive' = FALSE
                /\ UNCHANGED <<base_waypoints, last_waypoint, apply_brake,
                               final_waypoints, tick, track>>
           ELSE IF gen.raised
           THEN /\ alive' = FALSE
                /\ apply_brake' = brake
                /\ UNCHANGED <<base_waypoints, last_waypoint, final_waypoints,
                               tick, track>>
           ELSE /\ apply_brake' = brake
                /\ base_waypoints' = Some(gen.wps)
                /\ final_waypoints' = Some(get_lane(gen.wps, gen.next))
                /\ last_waypoint' = Some(closest_idx)
                /\ tick' = Some([pose |-> p, seed |-> last_waypoint,
                                 num_waypoints |-> Len(wps),
                                 closest_idx |-> closest_idx,
                                 traffic_idx |-> traffic_idx,
                                 speed |-> current_speed, brake |-> brake])
                /\ track' = Some(Tracked(p))
                /\ alive' = TRUE
    /\ UNCHANGED <<pose, traffic_wp_ind, current_speed>>

\* lines 168-197: one iteration of the loop with both states available
loop_iteration ==
    /\ alive
    /\ base_waypoints # None /\ pose # None
    /\ LET p == Val(pose)
           wps == Val(base_waypoints)
           loc == get_closest_waypoint(wps, last_waypoint, p)
           closest_idx == loc.closest_index
           last_index == closest_idx + LOOKAHEAD_WPS
           traffic_idx == get_traffic_wp(wps, traffic_wp_ind, closest_idx)
           brake == (traffic_idx # -1)
           gen == generate_next_waypoints(p, wps, closest_idx, last_index,
                                          traffic_idx, current_speed, brake)
       IN  IF loc.raised
           THEN /\ alive' = FALSE
                /\ UNCHANGED <<base_waypoints, last_waypoint, apply_brake,
                               final_waypoints, tick, track>>
           ELSE IF gen.raised
           THEN /\ alive' = FALSE
                /\ apply_brake' = brake
                /\ UNCHANGED <<base_waypoints, last_waypoint, final_waypoints,
                               tick, track>>
           ELSE /\ apply_brake' = brake
                /\ base_waypoints' = Some(gen.wps)
                /\ final_waypoints' = Some(get_lane(gen.wps, gen.next))
                /\ last_waypoint' = Some(closest_idx)
                /\ tick' = Some([pose |-> p, seed |-> last_waypoint,
                                 num_waypoints |-> Len(wps),
                                 closest_idx |-> closest_idx,
                                 traffic_idx |-> traffic_idx,
                                 speed |-> current_speed, brake |-> brake])
                /\ track' = Some(Tracked(p))
                /\ alive' = TRUE
    /\ UNCHANGED <<pose, traffic_wp_ind, current_speed>>

\* The handlers run in the threads of their subscribers and the loop in
\* the main thread, with no lock between them: one iteration of the loop
\* during which velocity_cb(msg) runs after line 226 and before line 248
loop_iteration_during_velocity_cb(msg) ==
    /\ alive
    /\ base_waypoints # None /\ pose # None
    /\ msg # current_speed
    /\ LET p == Val(pose)
           wps == Val(base_waypoints)
           loc == get_closest_waypoint(wps, last_waypoint, p)
           closest_idx == loc.closest_index
           last_index == closest_idx + LOOKAHEAD_WPS
           traffic_idx == get_traffic_wp(wps, traffic_wp_ind, closest_idx)
           brake == (traffic_idx # -1)
           gen == generate_next_waypoints_preempted(p, wps, closest_idx, last_index,
                                                    traffic_idx, current_speed, msg,
                                                    brake)
       IN  IF loc.raised
           THEN /\ alive' = FALSE
                /\ UNCHANGED <<base_waypoints, last_waypoint, apply_brake,
                               final_waypoints, tick, track>>
           ELSE IF gen.raised
           THEN /\ alive' = FALSE
                /\ apply_brake' = brake
                /\ UNCHANGED <<base_waypoints, last_waypoint, final_waypoints,
                               tick, track>>
           ELSE /\ apply_brake' = brake
                /\ base_waypoints' = Some(gen.wps)
                /\ final_waypoints' = Some(get_lane(gen.wps, gen.next))
                /\ last_waypoint' = Some(closest_idx)
                /\ tick' = Some([pose |-> p, seed |-> last_waypoint,
                                 num_waypoints |-> Len(wps),
                                 closest_idx |-> closest_idx,
                                 traffic_idx |-> traffic_idx,
                                 speed |-> current_speed, brake |-> brake])
                /\ track' = Some(Tracked(p))
                /\ alive' = TRUE
    /\ current_speed' = msg
    /\ UNCHANGED <<pose, traffic_wp_ind>>

----------------------------------------------------------------------------
(* TLDetector: the Stop-Line Correlator *)

STATE_COUNT_THRESHOLD == 3
MaxCount == 5

\* TLDetector.distance, in centimetres
distance(pose1, pose2) == Norm(pose2.x - pose1.x, pose2.y - pose1.y)

\* ClosestLoop that goes through the whole list and keeps the last nearest
\* point (no break at line 115, <= for < at line 111)
RECURSIVE ClosestLoop_LastNearest(_, _, _, _)
ClosestLoop_LastNearest(wps, p, idx, acc) ==
    IF idx >= Len(wps) THEN acc
    ELSE LET dist == distance(p, wps[idx + 1])
         IN  IF dist <= acc.best
             THEN ClosestLoop_LastNearest(wps, p, idx + 1, [closest |-> idx, best |-> dist])
             ELSE ClosestLoop_LastNearest(wps, p, idx + 1, acc)

\* the loop of TLDetector.get_closest_waypoint (lines 108-115): from index
\* 0, until the distance stops decreasing; acc = [closest, best]
RECURSIVE ClosestLoop(_, _, _, _)
ClosestLoop(wps, p, idx, acc) ==
    IF idx >= Len(wps) THEN acc
    ELSE LET dist == distance(p, wps[idx + 1])
         IN  IF dist < acc.best
             THEN ClosestLoop(wps, p, idx + 1, [closest |-> idx, best |-> dist])
             ELSE acc

\* TLDetector.get_closest_waypoint on a Lane that is present
tl_get_closest_waypoint(wps, p) == ClosestLoop(wps, p, 0, [closest |-> 0, best |-> Inf])

\* lines 178-189: sel = [best, light, light_wp]
RECURSIVE LightLoop(_, _, _, _, _, _)
LightLoop(ls, j, line_waypoint, line_waypoint_next, wp, sel) ==
    IF j > Len(ls) THEN sel
    ELSE LET possible_light == ls[j]
             dist_light == distance(possible_light, line_waypoint)
         IN  IF dist_light < 50 * DistUnit /\ dist_light < sel.best
                /\ distance(possible_light, line_waypoint_next) < dist_light
             THEN LightLoop(ls, j + 1, line_waypoint, line_waypoint_next, wp,
                            [best |-> dist_light, light |-> Some(possible_light),
                             light_wp |-> wp])
             ELSE LightLoop(ls, j + 1, line_waypoint, line_waypoint_next, wp, sel)

\* lines 159-189: acc = [raised, closest, light, light_wp]; raised is the
\* IndexError of self.waypoints.waypoints[wp+2]
RECURSIVE StopLineLoop(_, _, _, _, _, _)
StopLineLoop(cfg, k, p, wps, ls, acc) ==
    IF k > Len(cfg) THEN acc
    ELSE LET pos == [x |-> cfg[k][1], y |-> cfg[k][2]]
         IN  IF distance(pos, p) > 200 * DistUnit
             THEN StopLineLoop(cfg, k + 1, p, wps, ls, acc)
             ELSE LET near == tl_get_closest_waypoint(wps, pos)
                      wp == near.closest
                  IN  IF near.best < 1 * DistUnit /\ wp < 150 /\ wp < acc.closest
                      THEN IF wp + 2 >= Len(wps)
                           THEN [acc EXCEPT !.raised = TRUE, !.closest = wp]
                           ELSE LET sel == LightLoop(ls, 1, wps[wp + 1], wps[wp + 3], wp,
                                                     [best |-> Inf, light |-> acc.light,
                                                      light_wp |-> acc.light_wp])
                                IN  StopLineLoop(cfg, k + 1, p, wps, ls,
                                        [raised |-> FALSE, closest |-> wp,
                                         light |-> sel.light, light_wp |-> sel.light_wp])
                      ELSE StopLineLoop(cfg, k + 1, p, wps, ls, acc)

\* TLDetector.process_traffic_lights: [raised, light, light_wp]
process_traffic_lights(cfg, p, lane, ls) ==
    LET start == [raised |-> FALSE, closest |-> 200, light |-> None, light_wp |-> -1]
    IN  IF p # None /\ lane # None /\ Len(Val(lane)) > 0
        THEN StopLineLoop(cfg, 1, Val(p), Val(lane), ls, start)
        ELSE start

----------------------------------------------------------------------------
(* TLDetector: the Signal State Debouncer (image_cb, lines 83-93) *)

RawStates == {"RED", "YELLOW", "GREEN", "UNKNOWN"}

\* Debounce without the filter of line 88: the candidate index is committed
\* whatever the state
Debounce_CommitAnyColour(d, light_wp, raw) ==
    IF d.state # raw
    THEN [state |-> raw, last_state |-> d.last_state, last_wp |-> d.last_wp,
          state_count |-> 0 + 1, out |-> <<>>]
    ELSE IF d.state_count >= STATE_COUNT_THRESHOLD
    THEN [state |-> d.state, last_state |-> d.state, last_wp |-> light_wp,
          state_count |-> d.state_count + 1, out |-> <<light_wp>>]
    ELSE [state |-> d.state, last_state |-> d.last_state, last_wp |-> d.last_wp,
          state_count |-> d.state_count + 1, out |-> <<d.last_wp>>]

\* Debounce without the commit branch (lines 86-90)
Debounce_NoCommitBranch(d, light_wp, raw) ==
    IF d.state # raw
    THEN [state |-> raw, last_state |-> d.last_state, last_wp |-> d.last_wp,
          state_count |-> 0 + 1, out |-> <<>>]
    ELSE [state |-> d.state, last_state |-> d.last_state, last_wp |-> d.last_wp,
          state_count |-> d.state_count + 1, out |-> <<d.last_wp>>]

\* Debounce with > for >= in line 86
Debounce_StrictThreshold(d, light_wp, raw) ==
    IF d.state # raw
    THEN [state |-> raw, last_state |-> d.last_state, last_wp |-> d.last_wp,
          state_count |-> 0 + 1, out |-> <<>>]
    ELSE IF d.state_count > STATE_COUNT_THRESHOLD
    THEN LET light_wp2 == IF raw = "RED" THEN light_wp ELSE -1
         IN  [state |-> d.state, last_state |-> d.state, last_wp |-> light_wp2,
              state_count |-> d.state_count + 1, out |-> <<light_wp2>>]
    ELSE [state |-> d.state, last_state |-> d.last_state, last_wp |-> d.last_wp,
          state_count |-> d.state_count + 1, out |-> <<d.last_wp>>]

\* Debounce without line 84 (self.state_count = 0)
Debounce_CountNotReset(d, light_wp, raw) ==
    IF d.state # raw
    THEN [state |-> raw, last_state |-> d.last_state, last_wp |-> d.last_wp,
          state_count |-> d.state_count + 1, out |-> <<>>]
    ELSE IF d.state_count >= STATE_COUNT_THRESHOLD
    THEN LET light_wp2 == IF raw = "RED" THEN light_wp ELSE -1
         IN  [state |-> d.state, last_state |-> d.state, last_wp |-> light_wp2,
              state_count |-> d.state_count + 1, out |-> <<light_wp2>>]
    ELSE [state |-> d.state, last_state |-> d.last_state, last_wp |-> d.last_wp,
          state_count |-> d.state_count + 1, out |-> <<d.last_wp>>]

\* lines 83-93 on the debouncer's fields d = [state, last_state, last_wp,
\* state_count] with the correlator's (light_wp, raw); out is what the tick
\* publishes on /traffic_waypoint
Debounce(d, light_wp, raw) ==
    IF d.state # raw
    THEN [state |-> raw, last_state |-> d.last_state, last_wp |-> d.last_wp,
          state_count |-> 0 + 1, out |-> <<>>]
    ELSE IF d.state_count >= STATE_COUNT_THRESHOLD
    THEN LET light_wp2 == IF raw = "RED" THEN light_wp ELSE -1
         IN  [state |-> d.state, last_state |-> d.state, last_wp |-> light_wp2,
              state_count |-> d.state_count + 1, out |-> <<light_wp2>>]
    ELSE [state |-> d.state, last_state |-> d.last_state, last_wp |-> d.last_wp,
          state_count |-> d.state_count + 1, out |-> <<d.last_wp>>]

\* the observer's run of identical raw states, this one included
Observed(light_wp, raw) ==
    [state |-> raw, wp |-> light_wp,
     run |-> IF obs # None /\ Val(obs).state = raw THEN Val(obs).run + 1 ELSE 1]

StopLineConfigs ==
    { << <<10, 0>> >>, << <<30, 0>>, <<10, 0>> >>, << <<44, 0>> >> }
TLPoses == { [x |-> 0, y |-> 0], [x |-> 300, y |-> 0] }
TLLanes == { LinePath }
LightLists == { <<>>, << [x |-> 14, y |-> 0] >>, << [x |-> 70, y |-> 0] >> }

TLInit ==
    /\ tl_pose = None
    /\ tl_waypoints = None
    /\ lights = <<>>
    /\ state = "UNKNOWN"
    /\ last_state = "UNKNOWN"
    /\ last_wp = -1
    /\ state_count = 0
    /\ tl_out = <<>>
    /\ obs = None

tl_pose_cb(msg) ==
    /\ tl_pose' = Some(msg)
    /\ UNCHANGED <<stop_line_positions, tl_waypoints, lights, state, last_state,
                   last_wp, state_count, tl_out, obs>>

tl_waypoints_cb(msg) ==
    /\ tl_waypoints' = Some(msg)
    /\ UNCHANGED <<stop_line_positions, tl_pose, lights, state, last_state,
                   last_wp, state_count, tl_out, obs>>

tl_traffic_cb(msg) ==
    /\ lights' = msg
    /\ UNCHANGED <<stop_line_positions, tl_pose, tl_waypoints, state, last_state,
                   last_wp, state_count, tl_out, obs>>

\* TLDetector.image_cb; classified is what the classifier answers if asked.
\* An exception raised inside a callback ends that callback only.
image_cb(classified) ==
    /\ state_count < MaxCount
    /\ LET r == process_traffic_lights(stop_line_positions, tl_pose,
                                       tl_waypoints, lights)
           light_wp == IF r.light # None THEN r.light_wp ELSE -1
           raw == IF r.light # None THEN classified ELSE "UNKNOWN"
           d == Debounce([state |-> state, last_state |-> last_state,
                          last_wp |-> last_wp, state_count |-> state_count],
                         light_wp, raw)
       IN  IF r.raised
           THEN /\ tl_out' = <<>>
                /\ UNCHANGED <<tl_waypoints, state, last_state, last_wp,
                               state_count, obs>>
           ELSE /\ tl_waypoints' = IF r.light # None THEN tl_waypoints ELSE None
                /\ state' = d.state
                /\ last_state' = d.last_state
                /\ last_wp' = d.last_wp
                /\ state_count' = d.state_count
                /\ tl_out' = d.out
                /\ obs' = Some(Observed(light_wp, raw))
    /\ UNCHANGED <<stop_line_positions, tl_pose, lights>>

----------------------------------------------------------------------------
(* Specifications *)

\* the waypoint updater on a straight path
Init ==
    /\ WUInit
    /\ TLInit
    /\ stop_line_positions = << <<10, 0>> >>

Next ==
    \/ \E msg \in Poses : pose_cb(msg) /\ UNCHANGED tl_vars
    \/ \E msg \in Paths : waypoints_cb(msg) /\ UNCHANGED tl_vars
    \/ \E msg \in StopIndices : traffic_cb(msg) /\ UNCHANGED tl_vars
    \/ \E msg \in Speeds : velocity_cb(msg) /\ UNCHANGED tl_vars
    \/ loop_not_ready /\ UNCHANGED tl_vars
    \/ loop_iteration /\ UNCHANGED tl_vars

Spec == Init /\ [][Next]_vars

\* the waypoint updater on a closed path, the vehicle anywhere on it
NextLoc ==
    \/ \E msg \in RingPoses : pose_cb(msg) /\ UNCHANGED tl_vars
    \/ waypoints_cb(RingPath) /\ UNCHANGED tl_vars
    \/ traffic_cb(-1) /\ UNCHANGED tl_vars
    \/ velocity_cb(SpeedUnit) /\ UNCHANGED tl_vars
    \/ loop_not_ready /\ UNCHANGED tl_vars
    \/ loop_iteration /\ UNCHANGED tl_vars

SpecLoc == Init /\ [][NextLoc]_vars

\* the traffic light detector
InitTL ==
    /\ WUInit
    /\ TLInit
    /\ stop_line_positions \in StopLineConfigs

NextTL ==
    \/ \E msg \in TLPoses : tl_pose_cb(msg) /\ UNCHANGED wu_vars
    \/ \E msg \in TLLanes : tl_waypoints_cb(msg) /\ UNCHANGED wu_vars
    \/ \E msg \in LightLists : tl_traffic_cb(msg) /\ UNCHANGED wu_vars
    \/ \E classified \in RawStates : image_cb(classified) /\ UNCHANGED wu_vars

SpecTL == InitTL /\ [][NextTL]_vars

\* the traffic light detector beside a waypoint updater that drives the
\* closed path: its waypoints_cb receives the Base Path (/base_waypoints) and
\* the trajectories the updater publishes from it (/final_waypoints)

\* the points of the Lane the updater publishes from closest index c: the
\* LOOKAHEAD_WPS objects waypoints[i % len(waypoints)], i = c, c + 1, ...
TrajectoryFrom(wps, c) ==
    [k \in 1 .. LOOKAHEAD_WPS |-> wps[((c + k - 1) % Len(wps)) + 1]]

RingLanes == {RingPath} \cup {TrajectoryFrom(RingPath, c) : c \in 0 .. 3}
RingLights == { <<>>, << [x |-> 0, y |-> RingSide] >> }

InitRing ==
    /\ WUInit
    /\ TLInit
    /\ stop_line_positions = << <<RingSide, 0>> >>

NextRing ==
    \/ \E msg \in TLPoses : tl_pose_cb(msg) /\ UNCHANGED wu_vars
    \/ \E msg \in RingLanes : tl_waypoints_cb(msg) /\ UNCHANGED wu_vars
    \/ \E msg \in RingLights : tl_traffic_cb(msg) /\ UNCHANGED wu_vars
    \/ \E classified \in RawStates : image_cb(classified) /\ UNCHANGED wu_vars

SpecRing == InitRing /\ [][NextRing]_vars

\* the waypoint updater on a straight path longer than the lookahead
LongLen == 30

LongPath == [i \in 1 .. LongLen |-> [x |-> 2 * (i - 1), y |-> 0,
                                     v |-> 40 * KPH_MPS]]
FarPoses == { [x |-> 1, y |-> 0, yaw |-> 0], [x |-> 21, y |-> 0, yaw |-> 0] }
FarStopIndices == {-1, 8, 28}

NextFar ==
    \/ \E msg \in FarPoses : pose_cb(msg) /\ UNCHANGED tl_vars
    \/ waypoints_cb(LongPath) /\ UNCHANGED tl_vars
    \/ \E msg \in FarStopIndices : traffic_cb(msg) /\ UNCHANGED tl_vars
    \/ \E msg \in Speeds : velocity_cb(msg) /\ UNCHANGED tl_vars
    \/ loop_not_ready /\ UNCHANGED tl_vars
    \/ loop_iteration /\ UNCHANGED tl_vars

SpecFar == Init /\ [][NextFar]_vars

\* the waypoint updater with its handlers running beside the loop
RaceStopIndices == {-1, 24}

NextRace ==
    \/ \E msg \in FarPoses : pose_cb(msg) /\ UNCHANGED tl_vars
    \/ waypoints_cb(LongPath) /\ UNCHANGED tl_vars
    \/ \E msg \in RaceStopIndices : traffic_cb(msg) /\ UNCHANGED tl_vars
    \/ \E msg \in Speeds : velocity_cb(msg) /\ UNCHANGED tl_vars
    \/ loop_not_ready /\ UNCHANGED tl_vars
    \/ loop_iteration /\ UNCHANGED tl_vars
    \/ \E msg \in Speeds : loop_iteration_during_velocity_cb(msg) /\ UNCHANGED tl_vars

SpecRace == Init /\ [][NextRace]_vars

\* the traffic light detector with image ticks that keep arriving: the
\* camera publishes /image_color as long as the node runs
ImageTick == \E classified \in RawStates : image_cb(classified) /\ UNCHANGED wu_vars

LiveConfigs == { << <<10, 0>> >>, << <<44, 0>> >> }

InitLive ==
    /\ WUInit
    /\ TLInit
    /\ stop_line_positions \in LiveConfigs

SpecLive == InitLive /\ [][NextTL]_vars /\ WF_vars(ImageTick)

----------------------------------------------------------------------------
(* Claims *)

Trajectory == Val(final_waypoints)
Last == Val(tick)

\* the trajectory positions at which the published Lane holds the Base Path
\* point of index idx
PositionsOf(idx) ==
    {k \in 1 .. Len(Trajectory) : (Last.closest_idx + k - 1) % Last.num_waypoints = idx}

\* C1: every target speed of a published trajectory is within
\* [0, speed limit], in the cruise and in the brake regime.
C1_SpeedsWithinLimits ==
    final_waypoints # None =>
        \A k \in 1 .. Len(Trajectory) : Trajectory[k].v >= 0 /\ Trajectory[k].v <= speed_limit

\* the next tick requests braking: the stop index is within its lookahead
BrakeRequested ==
    /\ base_waypoints # None /\ pose # None
    /\ LET loc == get_closest_waypoint(Val(base_waypoints), last_waypoint, Val(pose))
       IN  /\ ~loc.raised
           /\ get_traffic_wp(Val(base_waypoints), traffic_wp_ind,
                             loc.closest_index) # -1

\* C2: a tick that requests braking at measured speed zero publishes an
\* empty trajectory and the loop goes on.
C2_ZeroSpeedBrakeGoesOn ==
    [][(loop_iteration /\ BrakeRequested /\ current_speed = 0)
       => (alive' /\ final_waypoints' = Some(<<>>))]_vars

C4_ChangeOnlyAfterRun ==
    [][/\ (last_state' # last_state \/ last_wp' # last_wp)
          => (obs' # obs /\ Val(obs').run >= STATE_COUNT_THRESHOLD)
       /\ (obs' # obs /\ Val(obs').run < STATE_COUNT_THRESHOLD)
          => (tl_out' = <<>> \/ tl_out' = <<last_wp>>)]_vars

\* a committed RED stop index outlives a single GREEN frame
C4_Witness ==
    /\ last_state = "RED" /\ last_wp = 5
    /\ obs # None /\ Val(obs).state = "GREEN" /\ Val(obs).run = 1

\* C5: every image tick emits exactly one stop index: the one it commits,
\* or else the one committed before.
C5_OneIndexPerTick ==
    [][obs' # obs => tl_out' = <<last_wp'>>]_vars

\* C6: in a brake trajectory the point at the stop index has target speed 0
\* and so has every point after it.
C6_StopAndBeyondZero ==
    (final_waypoints # None /\ tick # None /\ Last.brake) =>
        /\ PositionsOf(Last.traffic_idx) # {}
        /\ \A k \in PositionsOf(Last.traffic_idx) :
               \A j \in k .. Len(Trajectory) : Trajectory[j].v = 0

\* a brake trajectory with a moving point before the stop point and points
\* after it
C6_Witness ==
    /\ final_waypoints # None /\ tick # None /\ Last.brake
    /\ \E k \in PositionsOf(Last.traffic_idx) :
           /\ k < Len(Trajectory)
           /\ \E j \in 1 .. (k - 1) : Trajectory[j].v > 0

\* C7: the target speeds of a cruise trajectory, read in order, never
\* decrease and never exceed the speed limit.
C7_CruiseNonDecreasing ==
    (final_waypoints # None /\ tick # None /\ ~Last.brake) =>
        /\ \A k \in 1 .. Len(Trajectory) : Trajectory[k].v <= speed_limit
        /\ \A k \in 1 .. (Len(Trajectory) - 1) : Trajectory[k].v <= Trajectory[k + 1].v

\* C8: the Base Path the updater holds is what the last Base Path message
\* delivered.
C8_BasePathAsDelivered ==
    base_waypoints # None => Val(base_waypoints) \in Paths

\* C9: the index the Path Locator returned (read modulo the path length, as
\* the driver reads it) is that of a point not behind the vehicle.
C9_ClosestNotBehind ==
    (tick # None /\ base_waypoints # None
     /\ Len(Val(base_waypoints)) = Last.num_waypoints) =>
        ~is_behind(Last.pose,
                   Val(base_waypoints)[(Last.closest_idx % Last.num_waypoints) + 1])

\* C10: while the vehicle advances along the path by less than one point
\* spacing per tick, the index the locator returns from its seed equals the
\* one a full scan returns for the same pose.
C10_IncrementalEqualsFullScan ==
    (tick # None /\ track # None /\ Val(track).ok /\ base_waypoints # None) =>
        Last.closest_idx =
            get_closest_waypoint(Val(base_waypoints), None, Last.pose).closest_index

\* what the correlator returns for the detector's present inputs
Correlated == process_traffic_lights(stop_line_positions, tl_pose, tl_waypoints, lights)

\* the correlator runs its search and no lookup of it fails
Correlates ==
    /\ tl_pose # None /\ tl_waypoints # None /\ Len(Val(tl_waypoints)) > 0
    /\ ~Correlated.raised

\* the path indices of the stop-lines accepted at step 3, in list order
RECURSIVE AcceptedFrom(_, _, _, _, _)
AcceptedFrom(cfg, k, p, wps, closest) ==
    IF k > Len(cfg) THEN {}
    ELSE LET pos == [x |-> cfg[k][1], y |-> cfg[k][2]]
             near == tl_get_closest_waypoint(wps, pos)
         IN  IF distance(pos, p) <= 200 * DistUnit /\ near.best < 1 * DistUnit
                /\ near.closest < 150 /\ near.closest < closest
             THEN {near.closest} \cup AcceptedFrom(cfg, k + 1, p, wps, near.closest)
             ELSE AcceptedFrom(cfg, k + 1, p, wps, closest)

Accepted == AcceptedFrom(stop_line_positions, 1, Val(tl_pose), Val(tl_waypoints), 200)

SmallestAccepted == CHOOSE wp \in Accepted : \A other \in Accepted : wp <= other

\* the signals that qualify at step 4 for the stop-line of path index wp
Qualifying(wp) ==
    LET wps == Val(tl_waypoints)
    IN  {j \in 1 .. Len(lights) :
            /\ distance(lights[j], wps[wp + 1]) < 50 * DistUnit
            /\ distance(lights[j], wps[wp + 3]) < distance(lights[j], wps[wp + 1])}

\* C11: an index the correlator outputs is the smallest index among the
\* stop-lines accepted this tick and its signal is the nearest qualifying
\* signal of that stop-line; if that stop-line has no qualifying signal the
\* correlator outputs none.
C11_SmallestAcceptedWins ==
    Correlates =>
        /\ Correlated.light # None =>
              /\ Accepted # {}
              /\ Correlated.light_wp = SmallestAccepted
              /\ \E j \in Qualifying(SmallestAccepted) :
                    /\ lights[j] = Val(Correlated.light)
                    /\ \A other \in Qualifying(SmallestAccepted) :
                          distance(lights[j], Val(tl_waypoints)[SmallestAccepted + 1])
                            <= distance(lights[other], Val(tl_waypoints)[SmallestAccepted + 1])
        /\ (Accepted # {} /\ Qualifying(SmallestAccepted) = {}) =>
              Correlated.light = None

\* no signal observation lies within the match radius of the path point of
\* an accepted stop-line
NoSignalInRadius ==
    \A wp \in Accepted : \A j \in 1 .. Len(lights) :
        distance(lights[j], Val(tl_waypoints)[wp + 1]) >= 50 * DistUnit

\* C12: with no signal observation within the match radius of the path point
\* of any accepted stop-line, the correlator returns "no stop" for the tick.
C12_NoSignalNoStop ==
    (tl_pose # None /\ tl_waypoints # None /\ Len(Val(tl_waypoints)) > 0
     /\ Accepted # {} /\ NoSignalInRadius)
        => (~Correlated.raised /\ Correlated.light = None)

\* C13: the stop index the debouncer holds is -1 or an index of the Base
\* Path, whether the detector's waypoints came from /base_waypoints or from
\* /final_waypoints.
C13_StableIndexInBasePath ==
    last_wp = -1 \/ (0 <= last_wp /\ last_wp < Len(RingPath))

\* an index committed from a trajectory that is longer than the Base Path
C13_Witness ==
    /\ last_wp >= 0 /\ last_state = "RED"
    /\ tl_waypoints # None /\ Len(Val(tl_waypoints)) > Len(RingPath)
    /\ obs # None /\ Val(obs).wp = last_wp

\* a pose has been received and the Base Path has been received and is
\* populated
Ready == pose # None /\ base_waypoints # None /\ Len(Val(base_waypoints)) > 0

\* C14: the loop locates, generates and publishes only on a tick at which a
\* pose and a populated Base Path are present; every other tick produces no
\* output and raises no error.
C14_TicksOnlyWhenReady ==
    [][/\ (tick' # tick \/ final_waypoints' # final_waypoints) => Ready
       /\ ~Ready => (alive' = alive /\ final_waypoints' = final_waypoints)]_vars

\* C15: the trajectory of a completed tick has LOOKAHEAD_WPS points and its
\* k-th point (k from 0) is the Base Path point of index
\* (current index + k) mod path length.
C15_WindowOfBasePath ==
    (tick # None /\ final_waypoints # None /\ base_waypoints # None
     /\ Len(Val(base_waypoints)) = Last.num_waypoints) =>
        /\ Len(Trajectory) = LOOKAHEAD_WPS
        /\ \A k \in 0 .. (LOOKAHEAD_WPS - 1) :
              LET point == Val(base_waypoints)[((Last.closest_idx + k) % Last.num_waypoints) + 1]
              IN  Trajectory[k + 1].x = point.x /\ Trajectory[k + 1].y = point.y

\* a trajectory that runs over the end of the Base Path and starts again at
\* its first point
C15_Witness ==
    /\ tick # None /\ final_waypoints # None /\ base_waypoints # None
    /\ Len(Val(base_waypoints)) = Last.num_waypoints
    /\ Last.closest_idx > 0 /\ Last.closest_idx < Last.num_waypoints
    /\ Len(Trajectory) = LOOKAHEAD_WPS
    /\ Trajectory[LOOKAHEAD_WPS].x = Val(base_waypoints)[1].x
       \/ Trajectory[LOOKAHEAD_WPS - 1].x = Val(base_waypoints)[1].x

\* the x-component of the vector from the vehicle to the point, rotated into
\* the vehicle's forward frame
RotatedX(p, target_wp) ==
    ((target_wp.x - p.x) * Cos(p.yaw)) + ((target_wp.y - p.y) * Sin(p.yaw))

\* C16: the is-behind test is true exactly when the rotated x-component is
\* strictly negative; for a zero component (the point at the vehicle's own
\* position) it is false.
C16_BehindIffNegative ==
    (pose # None /\ base_waypoints # None) =>
        \A i \in 1 .. Len(Val(base_waypoints)) :
            is_behind(Val(pose), Val(base_waypoints)[i])
                <=> (RotatedX(Val(pose), Val(base_waypoints)[i]) < 0)

\* C17: the index the Path Locator returns, which the tick persists as the
\* next seed, lies in [0, path length).
C17_IndexWithinPath ==
    (tick # None /\ last_waypoint # None) =>
        /\ 0 <= Last.closest_idx /\ Last.closest_idx < Last.num_waypoints
        /\ Val(last_waypoint) = Last.closest_idx

\* a stop index has been received and is an index of the Base Path
StopIndexReceived ==
    /\ traffic_wp_ind # None /\ base_waypoints # None
    /\ 0 <= Val(traffic_wp_ind) /\ Val(traffic_wp_ind) < Len(Val(base_waypoints))

\* idx is one of the LOOKAHEAD_WPS indices from closest_idx on
InWindow(idx, closest_idx, num_waypoints) ==
    \E i \in 0 .. (LOOKAHEAD_WPS - 1) : (i + closest_idx) % num_waypoints = idx

\* C18 as stated: a tick made while a stop index of the Base Path is held
\* runs the brake regime, whether the index is inside the lookahead window
\* or not.
C18_BrakeWheneverStopIndex ==
    [][(tick' # tick /\ StopIndexReceived) => Val(tick').brake]_vars

\* C18 amended: a tick runs the brake regime exactly when the stop index it
\* holds is one of the next LOOKAHEAD_WPS indices from the current index; with
\* a stop index outside that window it runs the cruise regime, whose last
\* written speed is the measured speed raised LOOKAHEAD_WPS times by the
\* acceleration step, capped at the speed limit.
C18_BrakeIffStopInWindow ==
    [][tick' # tick =>
          /\ Val(tick').brake <=>
                (StopIndexReceived
                 /\ InWindow(Val(traffic_wp_ind), Val(tick').closest_idx,
                             Val(tick').num_waypoints))
          /\ ~Val(tick').brake =>
                Val(final_waypoints')[LOOKAHEAD_WPS].v =
                    Min(current_speed + LOOKAHEAD_WPS * SAFE_ACCEL * SpeedUnit,
                        speed_limit)]_vars

\* a cruise trajectory published while a stop index beyond the window is held
C18_Witness ==
    /\ tick # None /\ final_waypoints # None /\ StopIndexReceived
    /\ ~Last.brake
    /\ ~InWindow(Val(traffic_wp_ind), Last.closest_idx, Last.num_waypoints)
    /\ Len(Trajectory) = LOOKAHEAD_WPS
    /\ Trajectory[LOOKAHEAD_WPS].v =
           Min(Last.speed + LOOKAHEAD_WPS * SAFE_ACCEL * SpeedUnit, speed_limit)

\* the trajectory a tick computes in one piece from the Planner State of the
\* present state, with measured speed v
AtomicTick(v) ==
    LET p == Val(pose)
        wps == Val(base_waypoints)
        loc == get_closest_waypoint(wps, last_waypoint, p)
        traffic_idx == get_traffic_wp(wps, traffic_wp_ind, loc.closest_index)
        gen == generate_next_waypoints(p, wps, loc.closest_index,
                                       loc.closest_index + LOOKAHEAD_WPS,
                                       traffic_idx, v, traffic_idx # -1)
    IN  IF loc.raised \/ gen.raised THEN None
        ELSE Some(get_lane(gen.wps, gen.next))

\* C19: the trajectory a tick publishes is the one computed in one piece from
\* a single value of the measured speed (the one held before or the one held
\* after the tick), one stop index and one Base Path.
C19_TickFromOneSnapshot ==
    [][(tick' # tick \/ final_waypoints' # final_waypoints) =>
          \E v \in {current_speed, current_speed'} :
              final_waypoints' = AtomicTick(v)]_vars

\* C20: an image tick whose correlator outputs "no relevant signal" keeps the
\* Base Path the detector holds, so that the next image tick scans the same
\* path again without a new path message.
C20_PathKeptAfterNoSignal ==
    [][(obs' # obs /\ Val(obs').wp = -1) => tl_waypoints' = tl_waypoints]_vars

\* the image tick of this step commits: the raw state is the current one and
\* the run length has reached the threshold (line 86)
Commits ==
    /\ obs' # obs
    /\ Val(obs').state = state
    /\ state_count >= STATE_COUNT_THRESHOLD

\* C21: a commit stores the tick's candidate index when the committed state
\* is RED and -1 otherwise; so a committed stop index other than -1 goes
\* with the committed state RED.
C21_IndexOnlyWithRed ==
    /\ [](last_wp # -1 => last_state = "RED")
    /\ [][Commits =>
             /\ last_state' = Val(obs').state
             /\ last_wp' = IF last_state' = "RED" THEN Val(obs').wp ELSE -1]_vars

\* a GREEN commit made while the correlator reports candidate index 5
C21_Witness ==
    /\ obs # None /\ Val(obs).state = "GREEN" /\ Val(obs).wp = 5
    /\ Val(obs).run > STATE_COUNT_THRESHOLD
    /\ last_state = "GREEN" /\ last_wp = -1 /\ tl_out = <<-1>>

\* the raw state of the last image tick is the committed one and the tick
\* emitted the index that goes with it
CommittedAndEmitted ==
    obs # None =>
        /\ last_state = Val(obs).state
        /\ last_wp = IF Val(obs).state = "RED" THEN Val(obs).wp ELSE -1
        /\ tl_out = <<last_wp>>

\* the correlator can report nothing: a lookup of it fails
CorrelatorFails ==
    /\ tl_pose # None /\ tl_waypoints # None /\ Len(Val(tl_waypoints)) > 0
    /\ Correlated.raised

\* C22: if image ticks keep arriving and from some tick on each of them
\* reports the same raw state s (the current raw state stays s), then s is
\* eventually committed and from then on the index that goes with it is
\* emitted (the candidate index for RED, -1 otherwise).
C22_SteadyStateCommitted ==
    \A s \in RawStates :
        <>[](state = s /\ ~CorrelatorFails)
            => <>[](last_state = s /\ CommittedAndEmitted)

\* a RED state committed on two ticks in a row
C22_Witness ==
    /\ obs # None /\ Val(obs).state = "RED"
    /\ Val(obs).run >= STATE_COUNT_THRESHOLD + 2
    /\ state_count >= STATE_COUNT_THRESHOLD + 2
    /\ last_state = "RED" /\ last_wp = Val(obs).wp /\ tl_out = <<last_wp>>

\* C23: when a tick invokes the trajectory generator the braking flag is set
\* exactly if the stop index passed to it is not -1, so the generator never
\* takes its branch "brake without a stop index" and no tick publishes an
\* empty trajectory.
C23_FlagIffStopIndex ==
    /\ [](final_waypoints # None => Len(Trajectory) > 0)
    /\ [][tick' # tick =>
             /\ apply_brake' <=> (Val(tick').traffic_idx # -1)
             /\ Val(tick').brake = apply_brake']_vars

\* a cruise tick made with the flag cleared, on a Base Path that an earlier
\* brake tick has left with a point of target speed 0
C23_Witness ==
    /\ tick # None /\ final_waypoints # None /\ base_waypoints # None
    /\ ~apply_brake /\ ~Last.brake /\ Last.traffic_idx = -1
    /\ Len(Trajectory) = LOOKAHEAD_WPS
    /\ \E k \in 1 .. Len(Val(base_waypoints)) : Val(base_waypoints)[k].v = 0

====
